---- MODULE Spec2Model ----
(***************************************************************************)
(* A model of the FAIRWork CRF constraint-programming planner:             *)
(*   - the order-to-line (OTL) solver, order_scheduling/cp_order_to_line;  *)
(*   - the request handlers of api/swagger_api that canonicalise a request,*)
(*     call the solvers and re-map the result;                             *)
(*   - the coarse worker allocation main_allocation,                       *)
(*     worker_allocation/temp_cp_worker_allocation;                        *)
(*   - the interval-based worker-allocation (WLA) model,                   *)
(*     worker_allocation/cp_woker_allocation.                              *)
(* A CP-SAT solve is modelled by its contract: the solver returns OPTIMAL  *)
(* with some optimal assignment of the model's variables when the model    *)
(* has a solution (no time limit is set anywhere in the code), INFEASIBLE  *)
(* otherwise.  Which optimal assignment is returned is a nondeterministic  *)
(* choice.                                                                 *)
(***************************************************************************)
EXTENDS Integers, Sequences, FiniteSets, TLC

VARIABLES
    pc,                 \* position of the call: "called", "returned", "raised"
    orders,             \* OTL input: list of orders, each a list of alternatives
    makespan_weight,    \* parameter of main
    tardiness_weight,   \* parameter of main
    status,             \* solver status after solver.solve
    presence_of,        \* per order: index of the alternative whose presence literal is 1
    starts_order,       \* per order: value of order_<k>_start
    order_ends,         \* per order: value of order_<k>_end
    objective_value,    \* value of objective_var
    gantt_data,         \* the schedule main returns (one record per order)
    request,            \* request.json of the HTTP request being handled
    response,           \* what the handler returns: status code, message, solution
    medical_flag,       \* the global medical_flag of the coarse worker allocation
    line_allocation,    \* the line_data the handler hands to main_allocation
    allocation_list,    \* what main_allocation returned: line -> worker indices
    solver_runs,        \* the calls of solver.Solve made by main_allocation so far
    line_data,          \* argument of the interval-based main
    worker_specific_data,   \* argument of the interval-based main
    worker_availabilities,  \* argument of the interval-based main
    solver_values       \* the values of the variables after the interval-based solve

otlVars == <<orders, makespan_weight, tardiness_weight, status, presence_of,
             starts_order, order_ends, objective_value, gantt_data>>

apiVars == <<request, response>>

waVars == <<medical_flag, line_allocation, allocation_list, solver_runs>>

wlaVars == <<line_data, worker_specific_data, worker_availabilities, solver_values>>

vars == <<pc, otlVars, apiVars, waVars, wlaVars>>

(***************************************************************************)
(* Bounds of the model.                                                    *)
(***************************************************************************)
MaxTotalAlternatives == 2   \* alternatives of one OTL input, summed over its orders

\* main(makespan_weight: int = 1, tardiness_weight: int = 1, ...): every caller
\* uses the defaults.
DefaultWeight == 1

\* Values the fields of an alternative are drawn from.
Durations == {1, 2}
LineIds == {0, 1}
PriorityBits == {0, 1}
DueDates == {0, 2}

(***************************************************************************)
(* Helpers.                                                                *)
(***************************************************************************)
Max(S) == CHOOSE x \in S : \A y \in S : y <= x

Min(S) == CHOOSE x \in S : \A y \in S : x <= y

Max2(a, b) == IF a >= b THEN a ELSE b

RECURSIVE SumSeq(_)
SumSeq(s) == IF s = <<>> THEN 0 ELSE Head(s) + SumSeq(Tail(s))

\* Fields of an alternative tuple (duration [h], line_id, priority, due_date [h]).
Duration(alt) == alt[1]
LineId(alt) == alt[2]
Priority(alt) == alt[3]
DueDate(alt) == alt[4]

(***************************************************************************)
(* The OTL model built by main.                                            *)
(***************************************************************************)
\* horizon: for each order the duration of the longest alternative, added up
Horizon(os) ==
    SumSeq([o \in DOMAIN os |-> Max({Duration(os[o][a]) : a \in DOMAIN os[o]})])

\* order_is_priority = order[0][2] == 1
OrderIsPriority(order) == Priority(order[1]) = 1

\* An assignment of the variables that matter: which presence literal of each
\* order is 1, and the start of each order.  The start and end of the selected
\* alternative equal the order's (only_enforce_if(alt_presence)).
AltStart(sol, o) == sol.start[o]

\* new_optional_interval_var(alt_start, _duration, alt_end, alt_presence)
AltEnd(os, sol, o) == sol.start[o] + Duration(os[o][sol.present[o]])

\* add_max_equality(alt_task_tardiness, [0, alt_end - _due_date])
AltTaskTardiness(os, sol, o) ==
    Max2(0, AltEnd(os, sol, o) - DueDate(os[o][sol.present[o]]))

\* model.add_no_overlap(line_intervals), for every line: the present intervals
\* of one line are pairwise disjoint.
NoOverlapMissing(os, sol) == TRUE

NoOverlap(os, sol) ==
    \A o1, o2 \in DOMAIN os :
        (o1 < o2 /\ LineId(os[o1][sol.present[o1]]) = LineId(os[o2][sol.present[o2]]))
            => \/ AltEnd(os, sol, o1) <= AltStart(sol, o2)
               \/ AltEnd(os, sol, o2) <= AltStart(sol, o1)

\* model.add(priority_start <= non_priority_start), pairwise
PriorityBeforeMissing(os, sol) == TRUE

PriorityBefore(os, sol) ==
    \A p, n \in DOMAIN os :
        (OrderIsPriority(os[p]) /\ ~OrderIsPriority(os[n]))
            => sol.start[p] <= sol.start[n]

\* makespan = max of the order ends
MakespanOf(os, sol) == Max({AltEnd(os, sol, o) : o \in DOMAIN os})

\* total_tardiness = sum of the orders' tardiness
TotalTardinessOf(os, sol) ==
    SumSeq([o \in DOMAIN os |-> AltTaskTardiness(os, sol, o)])

\* objective_var == makespan_weight * makespan + tardiness_weight * total_tardiness
ObjectiveOf(os, wm, wt, sol) ==
    wm * MakespanOf(os, sol) + wt * TotalTardinessOf(os, sol)

\* The variables of an alternative that is not selected are constrained only
\* by their domains [0, horizon] and by the unconditional max-equality of its
\* tardiness: some end in [0, horizon] must give a tardiness in [0, horizon].
AbsentAlternativeOk(os, alt) ==
    \E e \in 0..Horizon(os) : Max2(0, e - DueDate(alt)) \in 0..Horizon(os)

\* Declared domains: every start, end and tardiness in [0, horizon],
\* total_tardiness and objective_var in [0, horizon * len(orders)].
DomainsOk(os, wm, wt, sol) ==
    LET H == Horizon(os)
    IN  /\ \A o \in DOMAIN os :
            /\ AltStart(sol, o) \in 0..H
            /\ AltEnd(os, sol, o) \in 0..H
            /\ AltTaskTardiness(os, sol, o) \in 0..H
            /\ \A a \in DOMAIN os[o] :
                   a # sol.present[o] => AbsentAlternativeOk(os, os[o][a])
        /\ MakespanOf(os, sol) \in 0..H
        /\ TotalTardinessOf(os, sol) \in 0..(H * Len(os))
        /\ ObjectiveOf(os, wm, wt, sol) \in 0..(H * Len(os))

\* Candidate assignments: exactly one alternative per order (add_exactly_one),
\* the start and the end of the selected interval inside [0, horizon].
RECURSIVE ChoicesUpTo(_, _, _)
ChoicesUpTo(os, H, k) ==
    IF k = 0 THEN {<<>>}
    ELSE LET here == UNION { {<<a, s>> : s \in 0..(H - Duration(os[k][a]))} :
                                a \in DOMAIN os[k] }
         IN  {Append(f, c) : f \in ChoicesUpTo(os, H, k - 1), c \in here}

Assignments(os) ==
    { [present |-> [o \in DOMAIN os |-> f[o][1]], start |-> [o \in DOMAIN os |-> f[o][2]]] :
        f \in ChoicesUpTo(os, Horizon(os), Len(os)) }

\* The solutions of the CP model.  Without orders, makespan must equal the
\* maximum of an empty list (add_max_equality(makespan, [])), which no value
\* does: the model has no solution.
ModelSolutions(os, wm, wt) ==
    IF os = <<>> THEN {}
    ELSE { sol \in Assignments(os) :
             /\ NoOverlap(os, sol)
             /\ PriorityBefore(os, sol)
             /\ DomainsOk(os, wm, wt, sol) }

\* model.minimize(objective_var): the solutions the solver may return as OPTIMAL.
OptimalSolutions(os, wm, wt) ==
    LET sols == ModelSolutions(os, wm, wt)
        best == Min({ObjectiveOf(os, wm, wt, s) : s \in sols})
    IN  IF sols = {} THEN {} ELSE { s \in sols : ObjectiveOf(os, wm, wt, s) = best }

(***************************************************************************)
(* Building the returned schedule (gantt_data).                            *)
(***************************************************************************)
\* presences[(order_idx, _line_id)] = alt_presence: a dict keyed by order and
\* line, so of several alternatives of one order on one line the last one's
\* literal is the one stored.  Value of the stored literal:
PresencesValue(os, sol, o, line) ==
    LET withLine == {a \in DOMAIN os[o] : LineId(os[o][a]) = line}
    IN  sol.present[o] = Max(withLine)

\* [line_id for _, line_id, *_ in order_alternatives_list
\*          if solver.Value(presences[(orders_idx, line_id)])]
SelectedLines(os, sol, o) ==
    SelectSeq([a \in DOMAIN os[o] |-> LineId(os[o][a])],
              LAMBDA line : PresencesValue(os, sol, o, line))

\* One record of gantt_data; 'Order k' and 'Line l' are kept as the pair of
\* the prefix and the number (order indices are 0-based in the code).
GanttEntryFirstLine(os, sol, o) ==
    [Task     |-> <<"Order", o - 1>>,
     Start    |-> sol.start[o],
     Finish   |-> AltEnd(os, sol, o),
     Resource |-> <<"Line", LineId(os[o][1])>>]

GanttEntry(os, sol, o) ==
    [Task     |-> <<"Order", o - 1>>,
     Start    |-> sol.start[o],
     Finish   |-> AltEnd(os, sol, o),
     Resource |-> <<"Line", SelectedLines(os, sol, o)[1]>>]

GanttData(os, sol) == [o \in DOMAIN os |-> GanttEntry(os, sol, o)]

\* The [0] of the list comprehension raises IndexError on an empty list.
LookupFails(os, sol) == \E o \in DOMAIN os : SelectedLines(os, sol, o) = <<>>

(***************************************************************************)
(* OTL inputs.                                                             *)
(***************************************************************************)
Alternatives ==
    {<<d, l, p, due>> : d \in Durations, l \in LineIds, p \in PriorityBits,
                        due \in DueDates}

RECURSIVE SeqsOfLen(_, _)
SeqsOfLen(S, k) ==
    IF k = 0 THEN {<<>>}
    ELSE {Append(s, x) : s \in SeqsOfLen(S, k - 1), x \in S}

AlternativeLists == UNION {SeqsOfLen(Alternatives, k) : k \in 1..MaxTotalAlternatives}

RECURSIVE OrderListsWith(_)
\* all order lists with at most `budget` alternatives in total, every order
\* having at least one alternative
OrderListsWith(budget) ==
    IF budget = 0 THEN {<<>>}
    ELSE {<<>>} \cup
         UNION { {<<al>> \o rest : rest \in OrderListsWith(budget - Len(al))} :
                   al \in {x \in AlternativeLists : Len(x) <= budget} }

\* order A = [(10, 0, 1, 20)] and order B = [(5, 0, 0, 20)]: a priority order
\* and a non-priority order that share line 0
ScenarioS2 == << << <<10, 0, 1, 20>> >>, << <<5, 0, 0, 20>> >> >>

OrderInputs == (OrderListsWith(MaxTotalAlternatives) \ {<<>>}) \cup {ScenarioS2}

Weights == {DefaultWeight}

NoRequest == [start_time_stamp |-> 0, order_data |-> <<>>, geometry_line_mapping |-> <<>>,
              throughput_mapping |-> <<>>, human_factor |-> <<>>, availabilities |-> <<>>]

NoResponse == [code |-> 0, message |-> "", solution |-> <<>>]

(***************************************************************************)
(* The call main(makespan_weight, tardiness_weight) on `orders`.           *)
(***************************************************************************)
Init ==
    /\ pc = "called"
    /\ orders \in OrderInputs
    /\ makespan_weight \in Weights
    /\ tardiness_weight \in Weights
    /\ status = "UNKNOWN"
    /\ presence_of = <<>>
    /\ starts_order = <<>>
    /\ order_ends = <<>>
    /\ objective_value = 0
    /\ gantt_data = <<>>
    /\ request = NoRequest
    /\ response = NoResponse
    /\ medical_flag = FALSE
    /\ line_allocation = <<>>
    /\ allocation_list = <<>>
    /\ solver_runs = 0
    /\ line_data = <<>>
    /\ worker_specific_data = <<>>
    /\ worker_availabilities = <<>>
    /\ solver_values = [selected |-> <<>>, offset |-> <<>>]

\* The solver finds an optimum and every order's line is found: main returns
\* the schedule.
MainReturns ==
    /\ pc = "called"
    /\ \E sol \in OptimalSolutions(orders, makespan_weight, tardiness_weight) :
        /\ ~LookupFails(orders, sol)
        /\ status' = "OPTIMAL"
        /\ presence_of' = sol.present
        /\ starts_order' = sol.start
        /\ order_ends' = [o \in DOMAIN orders |-> AltEnd(orders, sol, o)]
        /\ objective_value' = ObjectiveOf(orders, makespan_weight, tardiness_weight, sol)
        /\ gantt_data' = GanttData(orders, sol)
    /\ pc' = "returned"
    /\ UNCHANGED <<orders, makespan_weight, tardiness_weight, apiVars, waVars, wlaVars>>

\* The solver finds an optimum, but for some order no line passes the
\* presences lookup: the [0] raises IndexError and nothing is returned.
MainRaisesLookup ==
    /\ pc = "called"
    /\ \E sol \in OptimalSolutions(orders, makespan_weight, tardiness_weight) :
        /\ LookupFails(orders, sol)
        /\ status' = "OPTIMAL"
        /\ presence_of' = sol.present
        /\ starts_order' = sol.start
        /\ order_ends' = [o \in DOMAIN orders |-> AltEnd(orders, sol, o)]
        /\ objective_value' = ObjectiveOf(orders, makespan_weight, tardiness_weight, sol)
    /\ pc' = "raised"
    /\ UNCHANGED <<orders, makespan_weight, tardiness_weight, gantt_data, apiVars, waVars, wlaVars>>

\* The model has no solution: the status is INFEASIBLE, there is no status
\* check, and reading the values of the variables fails; nothing is returned.
MainRaisesNoSolution ==
    /\ pc = "called"
    /\ ModelSolutions(orders, makespan_weight, tardiness_weight) = {}
    /\ status' = "INFEASIBLE"
    /\ pc' = "raised"
    /\ UNCHANGED <<orders, makespan_weight, tardiness_weight, presence_of,
                   starts_order, order_ends, objective_value, gantt_data, apiVars, waVars, wlaVars>>

Next ==
    \/ MainReturns
    \/ MainRaisesLookup
    \/ MainRaisesNoSolution

Spec == Init /\ [][Next]_vars

(***************************************************************************)
(* The Input Canonicalizer of the request handlers (api/swagger_api).      *)
(***************************************************************************)
\* "Line " + str(n) and "Order " + str(k): the prefix and the number
LineName(n) == <<"Line", n>>

OrderName(k) == <<"Order", k>>

RECURSIVE Concat(_)
\* the concatenation of a list of lists (list.extend / nested loops)
Concat(ss) == IF ss = <<>> THEN <<>> ELSE Head(ss) \o Concat(Tail(ss))

RECURSIVE DistinctUpTo(_, _)
\* the distinct values of s[1..k] in the order of their first appearance
DistinctUpTo(s, k) ==
    IF k = 0 THEN <<>>
    ELSE LET before == DistinctUpTo(s, k - 1)
         IN  IF \E i \in DOMAIN before : before[i] = s[k] THEN before
             ELSE Append(before, s[k])

FirstAppearance(s) == DistinctUpTo(s, Len(s))

\* the dense index a first-appearance enumeration gives to x (0-based)
DenseIndex(distinct, x) == (CHOOSE i \in DOMAIN distinct : distinct[i] = x) - 1

\* math.ceil(a / b) for integers a and b > 0
CeilDiv(a, b) == -((-a) \div b)

\* the lines of the request in first-appearance order through
\* throughput_mapping: init_line_list[line] is the position, 0-based
LinesOfRequest(req) ==
    FirstAppearance([i \in DOMAIN req.throughput_mapping |-> req.throughput_mapping[i].line])

InitLineList(req, line) == DenseIndex(LinesOfRequest(req), line)

\* temp_line_list['Line ' + str(temp)] = tp['line']
TempLineList(req) ==
    LET lines == LinesOfRequest(req)
    IN  [key \in {LineName(i - 1) : i \in DOMAIN lines} |-> lines[key[2] + 1]]

\* the order identifiers in first-appearance order through order-data
OrderIdsOfRequest(req) ==
    FirstAppearance([i \in DOMAIN req.order_data |-> req.order_data[i].order])

\* order_map['Order ' + str(temp)] = to['order']
OrderMap(req) ==
    LET ids == OrderIdsOfRequest(req)
    IN  [key \in {OrderName(i - 1) : i \in DOMAIN ids} |-> ids[key[2] + 1]]

\* priority = 0; if not order['priority']: priority = 1
PriorityBit(row) == IF ~row.priority THEN 1 ELSE 0

\* duration_mins = (deadline - start_time_stamp) / 60, then math.ceil
DueOf(req, row) == CeilDiv(row.deadline - req.start_time_stamp, 60)

\* line_list: main_line, then alternative_lines, of every geometry_line_mapping
\* row of the order's geometry
LineList(req, row) ==
    Concat([g \in DOMAIN req.geometry_line_mapping |->
              IF req.geometry_line_mapping[g].geometry = row.geometry
              THEN <<req.geometry_line_mapping[g].main_line>>
                     \o req.geometry_line_mapping[g].alternative_lines
              ELSE <<>>])

ThroughputUsedOne(tp) == IF tp.throughput = 0 THEN 1 ELSE tp.throughput

\* a throughput of 0 is replaced by 300 (with a warning) before it is used
ThroughputUsed(tp) == IF tp.throughput = 0 THEN 300 ELSE tp.throughput

\* math.ceil(5 * mold + (15 + amount / throughput) / 60), in exact arithmetic
DurationOf(row, tp) ==
    LET t == ThroughputUsed(tp)
    IN  CeilDiv(300 * row.mold * t + 15 * t + row.amount, 60 * t)

\* if init_line_list[line]: temp = init_line_list[line]   (temp is 0 otherwise)
LineIndexOf(req, tp) ==
    IF InitLineList(req, tp.line) # 0 THEN InitLineList(req, tp.line) ELSE 0

\* the alternatives one order-data row adds to order_dict: for every
\* throughput row, for every line of line_list that matches it
AlternativesOfRow(req, row) ==
    LET lines == LineList(req, row)
    IN  Concat([t \in DOMAIN req.throughput_mapping |->
          LET tp == req.throughput_mapping[t]
          IN  Concat([l \in DOMAIN lines |->
                IF tp.line = LineName(lines[l]) /\ tp.geometry = row.geometry
                THEN << <<DurationOf(row, tp), LineIndexOf(req, tp),
                          PriorityBit(row), DueOf(req, row)>> >>
                ELSE <<>>])])

\* order_dict[order id]: the alternatives of all rows with that identifier
OrderDict(req, id) ==
    Concat([r \in DOMAIN req.order_data |->
              IF req.order_data[r].order = id
              THEN AlternativesOfRow(req, req.order_data[r]) ELSE <<>>])

\* order_list: the non-empty values of order_dict, in insertion order
OrderList(req) ==
    LET ids == OrderIdsOfRequest(req)
    IN  SelectSeq([i \in DOMAIN ids |-> OrderDict(req, ids[i])],
                  LAMBDA alts : alts # <<>>)

\* final_result: a copy of every row with Resource and Task re-mapped through
\* temp_line_list and order_map when the key is present
FinalRow(req, row) ==
    LET withLine == IF row.Resource \in DOMAIN TempLineList(req)
                    THEN [row EXCEPT !.Resource = TempLineList(req)[row.Resource]]
                    ELSE row
    IN  IF row.Task \in DOMAIN OrderMap(req)
        THEN [withLine EXCEPT !.Task = OrderMap(req)[row.Task]]
        ELSE withLine

FinalResult(req, rows) == [i \in DOMAIN rows |-> FinalRow(req, rows[i])]

(***************************************************************************)
(* Requests.                                                               *)
(***************************************************************************)
MaxOrderRows == 2   \* rows of order-data in one request

StartTimeStamps == {7200}
OrderIds == {"A", "B"}
Geometries == {"g1", "g2"}
Amounts == {60}
Molds == {0}
Deadlines == {7200, 7440}

OrderRows ==
    [order : OrderIds, geometry : Geometries, amount : Amounts,
     deadline : Deadlines, mold : Molds, priority : BOOLEAN]

\* one order whose deadline lies two minutes before start_time_stamp
PastDeadlineRows ==
    [order : {"A"}, geometry : Geometries, amount : Amounts,
     deadline : {7080}, mold : Molds, priority : BOOLEAN]

\* one order with other amounts and a mold change: (15 + amount / throughput)
\* is a whole number of hours for amount 45 and throughput 1, and for amount
\* 105 and throughput 1
DurationRows ==
    [order : {"A"}, geometry : Geometries, amount : {0, 45, 105},
     deadline : {7440}, mold : {0, 1}, priority : {FALSE}]

OrderDataInputs ==
    UNION {SeqsOfLen(OrderRows, k) : k \in 1..MaxOrderRows}
      \cup {<<row>> : row \in PastDeadlineRows \cup DurationRows}

GeometryLineRow(g, main, alts, n) ==
    [geometry |-> g, main_line |-> main, alternative_lines |-> alts,
     number_of_workers |-> n]

ThroughputRow(line, g, t) == [line |-> LineName(line), geometry |-> g, throughput |-> t]

\* g2 has no line in the first table; in the third the main line of g1 is
\* repeated among its alternative lines
GeometryLineMappings ==
    { <<GeometryLineRow("g1", 5, <<>>, 1)>>,
      <<GeometryLineRow("g1", 5, <<6>>, 1), GeometryLineRow("g2", 6, <<>>, 2)>>,
      <<GeometryLineRow("g1", 5, <<5>>, 1), GeometryLineRow("g2", 5, <<>>, 2)>> }

ThroughputMappings ==
    { <<ThroughputRow(5, "g1", 1), ThroughputRow(6, "g1", 2), ThroughputRow(6, "g2", 1)>>,
      <<ThroughputRow(6, "g2", 0), ThroughputRow(5, "g2", 1), ThroughputRow(5, "g1", 1)>>,
      <<ThroughputRow(5, "g1", 1)>> }

OrderToLineRequests ==
    { [start_time_stamp |-> st, order_data |-> od, geometry_line_mapping |-> glm,
       throughput_mapping |-> tpm, human_factor |-> <<>>, availabilities |-> <<>>] :
        st \in StartTimeStamps, od \in OrderDataInputs,
        glm \in GeometryLineMappings, tpm \in ThroughputMappings }

(***************************************************************************)
(* POST /order-to-line.                                                    *)
(***************************************************************************)
InitApi ==
    /\ pc = "idle"
    /\ orders = <<>>
    /\ makespan_weight = DefaultWeight
    /\ tardiness_weight = DefaultWeight
    /\ status = "UNKNOWN"
    /\ presence_of = <<>>
    /\ starts_order = <<>>
    /\ order_ends = <<>>
    /\ objective_value = 0
    /\ gantt_data = <<>>
    /\ request = NoRequest
    /\ response = NoResponse
    /\ medical_flag = FALSE
    /\ line_allocation = <<>>
    /\ allocation_list = <<>>
    /\ solver_runs = 0
    /\ line_data = <<>>
    /\ worker_specific_data = <<>>
    /\ worker_availabilities = <<>>
    /\ solver_values = [selected |-> <<>>, offset |-> <<>>]

\* the values main's solve leaves behind for a solution sol of the orders os
Solved(os, sol) ==
    /\ orders' = os
    /\ status' = "OPTIMAL"
    /\ presence_of' = sol.present
    /\ starts_order' = sol.start
    /\ order_ends' = [o \in DOMAIN os |-> AltEnd(os, sol, o)]
    /\ objective_value' = ObjectiveOf(os, makespan_weight, tardiness_weight, sol)

OrderToLineReceive ==
    /\ pc = "idle"
    /\ request' \in OrderToLineRequests
    /\ pc' = "received"
    /\ UNCHANGED <<otlVars, response, waVars, wlaVars>>

\* main returns a schedule; the handler re-maps it and answers 200
OrderToLineResponds ==
    /\ pc = "received"
    /\ LET os == OrderList(request)
       IN  \E sol \in OptimalSolutions(os, makespan_weight, tardiness_weight) :
             /\ ~LookupFails(os, sol)
             /\ Solved(os, sol)
             /\ gantt_data' = GanttData(os, sol)
             /\ response' = [code |-> 200,
                             message |-> "Successfully performed order-to-line operation.",
                             solution |-> FinalResult(request, GanttData(os, sol))]
    /\ pc' = "responded"
    /\ UNCHANGED <<request, makespan_weight, tardiness_weight, waVars, wlaVars>>

\* The order list is empty (every order was dropped): the solve is INFEASIBLE
\* and main reads the values of variables that have none.  Where that read
\* does not raise, the loop over the orders builds nothing and main returns an
\* empty schedule; where it raises, the request fails (OrderToLineFails).
OrderToLineRespondsEmpty ==
    /\ pc = "received"
    /\ OrderList(request) = <<>>
    /\ orders' = <<>>
    /\ status' = "INFEASIBLE"
    /\ gantt_data' = <<>>
    /\ response' = [code |-> 200,
                    message |-> "Successfully performed order-to-line operation.",
                    solution |-> <<>>]
    /\ pc' = "responded"
    /\ UNCHANGED <<request, makespan_weight, tardiness_weight, presence_of,
                   starts_order, order_ends, objective_value, waVars, wlaVars>>

\* main raises (no solution, or the line lookup fails): the request fails
OrderToLineFails ==
    /\ pc = "received"
    /\ LET os == OrderList(request)
       IN  \/ /\ ModelSolutions(os, makespan_weight, tardiness_weight) = {}
              /\ orders' = os
              /\ status' = "INFEASIBLE"
              /\ UNCHANGED <<presence_of, starts_order, order_ends, objective_value>>
           \/ \E sol \in OptimalSolutions(os, makespan_weight, tardiness_weight) :
                 /\ LookupFails(os, sol)
                 /\ Solved(os, sol)
    /\ response' = [code |-> 500, message |-> "Internal Server Error", solution |-> <<>>]
    /\ pc' = "failed"
    /\ UNCHANGED <<request, makespan_weight, tardiness_weight, gantt_data,
                   waVars, wlaVars>>

NextOrderToLine ==
    \/ OrderToLineReceive
    \/ OrderToLineResponds
    \/ OrderToLineRespondsEmpty
    \/ OrderToLineFails

SpecOrderToLine == InitApi /\ [][NextOrderToLine]_vars

(***************************************************************************)
(* The coarse worker allocation (worker_allocation: main_allocation).      *)
(* line_data is a list of rows [Task, Start, Finish, Resource, geometry,   *)
(* required_workers]; worker_specific_data maps the worker indices 1..W to *)
(* their records per geometry; medical_flag is the module's global.        *)
(***************************************************************************)
HoursPerDay == 24

MaxObjective == 100000

PreferenceWeight == 1

ExperienceWeight == 1

ResistanceWeight == 1

StaffingWeight == 1

\* the empty dict
EmptyDict == <<>>

\* horizon = total_days * hours_per_day, total_days the days the makespan needs
AllocHorizon(ld) ==
    LET makespan == Max({ld[i].Finish : i \in DOMAIN ld})
        full_days == makespan \div HoursPerDay
        remaining_hours == makespan % HoursPerDay
        total_days == full_days + (IF remaining_hours > 0 THEN 1 ELSE 0)
    IN  total_days * HoursPerDay

LineNames(ld) == {ld[i].Resource : i \in DOMAIN ld}

LineOrders(ld, line) ==
    SelectSeq(ld, LAMBDA order : order.Resource = line)

MinWorkersPerLine(ld, line) ==
    LET line_orders == LineOrders(ld, line)
    IN  Max({line_orders[i].required_workers : i \in DOMAIN line_orders})

MaxWorkersPerLine(ld, line) ==
    LET line_orders == LineOrders(ld, line)
    IN  SumSeq([i \in DOMAIN line_orders |-> line_orders[i].required_workers])

\* assignment_vars: sol[w] is the set of lines l with assign_worker_w_to_l = 1
AssignmentVars(ld, wsd) == [DOMAIN wsd -> SUBSET LineNames(ld)]

WorkersOn(sol, line) == {w \in DOMAIN sol : line \in sol[w]}

\* sum(assignment_vars[worker][line] for line in line_names) <= 1
AtMostOneLine(sol) == \A w \in DOMAIN sol : Cardinality(sol[w]) <= 1

\* every line has between min and max workers
LineStaffed(ld, sol) ==
    \A line \in LineNames(ld) :
        /\ Cardinality(WorkersOn(sol, line)) >= MinWorkersPerLine(ld, line)
        /\ Cardinality(WorkersOn(sol, line)) <= MaxWorkersPerLine(ld, line)

\* For every availability window a fresh Boolean availability_var is made, and
\* the worker is on every line if that Boolean is true; nothing else
\* constrains the Boolean.
AvailabilityConstraint(ld, wav, sol) ==
    \A a \in DOMAIN wav : \A k \in DOMAIN wav[a].availability :
        \E availability_var \in BOOLEAN :
            availability_var =>
                \A line \in LineNames(ld) : line \in sol[wav[a].Worker_id]

\* a line on which an order of the geometry geo is scheduled
RunsGeometry(ld, line, geo) ==
    \E i \in DOMAIN ld :
        ld[i].Resource = line /\ ld[i].geometry = geo

\* a worker whose record for a geometry has medical-condition true is on no
\* line that runs the geometry
MedicalConstraint(ld, wsd, sol) ==
    \A w \in DOMAIN wsd : \A geo \in DOMAIN wsd[w] :
        wsd[w][geo].medical_condition =>
            \A line \in LineNames(ld) :
                RunsGeometry(ld, line, geo) => line \notin sol[w]

TotalWorkersAssigned(sol) == SumSeq([w \in DOMAIN sol |-> Cardinality(sol[w])])

StaffingSlack(ld, sol) ==
    LET names == LineNames(ld)
        f[S \in SUBSET names] ==
            IF S = {} THEN 0
            ELSE LET line == CHOOSE l \in S : TRUE
                 IN  (Cardinality(WorkersOn(sol, line))
                        - MinWorkersPerLine(ld, line)) + f[S \ {line}]
    IN  f[names]

SumOfMaxWorkers(ld) ==
    LET names == LineNames(ld)
        f[S \in SUBSET names] ==
            IF S = {} THEN 0
            ELSE LET line == CHOOSE l \in S : TRUE
                 IN  MaxWorkersPerLine(ld, line) + f[S \ {line}]
    IN  f[names]

\* The four penalties of a (worker, line) pair equal their weights where the
\* worker is on the line and are free in [0, 10 * horizon] elsewhere.
PenaltiesFit(ld, sol) ==
    TotalWorkersAssigned(sol) > 0 =>
        \A weight \in {PreferenceWeight, ExperienceWeight, ResistanceWeight, StaffingWeight} :
            weight <= 10 * AllocHorizon(ld)

\* the least and the greatest sum of all penalties the domains allow
LeastPenaltySum(sol) ==
    TotalWorkersAssigned(sol)
      * (PreferenceWeight + ExperienceWeight + ResistanceWeight + StaffingWeight)

GreatestPenaltySum(ld, sol) ==
    LET pairs == Len(sol) * Cardinality(LineNames(ld))
    IN  LeastPenaltySum(sol)
          + (pairs - TotalWorkersAssigned(sol)) * 4 * (10 * AllocHorizon(ld))

AllocDomainsOk(ld, sol) ==
    /\ PenaltiesFit(ld, sol)
    /\ LeastPenaltySum(sol) <= MaxObjective
    /\ StaffingSlack(ld, sol) \in 0..SumOfMaxWorkers(ld)

\* the value the solver maximizes, at its best for the assignment sol
AllocObjective(ld, sol) ==
    Min({MaxObjective, GreatestPenaltySum(ld, sol)})
      + StaffingWeight * StaffingSlack(ld, sol)
      - StaffingWeight * TotalWorkersAssigned(sol)

AllocSolutions(ld, wsd, wav, flag) ==
    { sol \in AssignmentVars(ld, wsd) :
        /\ AtMostOneLine(sol)
        /\ LineStaffed(ld, sol)
        /\ AvailabilityConstraint(ld, wav, sol)
        /\ (~flag => MedicalConstraint(ld, wsd, sol))
        /\ AllocDomainsOk(ld, sol) }

AllocOptimal(ld, wsd, wav, flag) ==
    LET sols == AllocSolutions(ld, wsd, wav, flag)
        best == Max({AllocObjective(ld, s) : s \in sols})
    IN  IF sols = {} THEN {} ELSE {s \in sols : AllocObjective(ld, s) = best}

\* workers_list: for every line with a worker, its workers in the order of
\* worker_specific_data
WorkersList(ld, sol) ==
    [line \in {l \in LineNames(ld) : WorkersOn(sol, l) # {}} |->
        SelectSeq([w \in DOMAIN sol |-> w], LAMBDA w : line \in sol[w])]

\* the workers_list one solver run may produce
SolverRun(ld, wsd, wav, flag) ==
    IF AllocSolutions(ld, wsd, wav, flag) = {} THEN {EmptyDict}
    ELSE {WorkersList(ld, s) : s \in AllocOptimal(ld, wsd, wav, flag)}

\* main_allocation: what it may return and the value it leaves in the global
\* medical_flag.  An empty workers_list with the flag unset sets the flag and
\* runs main_allocation again.
MainAllocation(ld, wsd, wav, flag) ==
    LET first == SolverRun(ld, wsd, wav, flag)
    IN  {[workers_list |-> r, medical_flag |-> flag, solver_runs |-> 1] :
            r \in {x \in first : ~(x = EmptyDict /\ ~flag)}}
        \cup (IF EmptyDict \in first /\ ~flag
              THEN {[workers_list |-> r, medical_flag |-> TRUE, solver_runs |-> 2] :
                        r \in SolverRun(ld, wsd, wav, TRUE)}
              ELSE {})

\* max() of an empty sequence raises ValueError
MainAllocationRaises(ld) == ld = <<>>

(***************************************************************************)
(* POST /worker-assignment (api/swagger_api).  The handler canonicalizes   *)
(* the orders as /order-to-line does, runs the OTL solver, builds the      *)
(* allocation input, runs main_allocation and assembles the rows.          *)
(* A string of decimal digits is the sequence of its digits.               *)
(***************************************************************************)
RECURSIVE IntOf(_)
\* int(s) for a string s of decimal digits
IntOf(s) ==
    IF s = <<>> THEN 0 ELSE 10 * IntOf(SubSeq(s, 1, Len(s) - 1)) + s[Len(s)]

\* worker_list: the worker of every human_factor row
WorkerList(req) == [i \in DOMAIN req.human_factor |-> req.human_factor[i].worker]

\* the keys of worker_map in insertion order; worker_map[n] is the position,
\* counted from 1
WorkerMapKeys(req) ==
    FirstAppearance([i \in DOMAIN req.human_factor |-> IntOf(WorkerList(req)[i])])

WorkerMap(req, n) == DenseIndex(WorkerMapKeys(req), n) + 1

InWorkerMap(req, n) == \E i \in DOMAIN WorkerMapKeys(req) : WorkerMapKeys(req)[i] = n

\* the record stored for one human_factor row
NewData(factor) ==
    [experience |-> factor.experience, preference |-> factor.preference,
     resilience |-> factor.resilience,
     medical_condition |-> IF factor.medical_condition = FALSE THEN FALSE ELSE TRUE]

\* the writes to worker_specific_data in program order: for every entry of
\* worker_list, every human_factor row of the same worker
FactorWrites(req) ==
    LET hf == req.human_factor
    IN  Concat([i \in DOMAIN hf |->
          Concat([j \in DOMAIN hf |->
            IF hf[i].worker = hf[j].worker
            THEN << [index |-> WorkerMap(req, IntOf(hf[i].worker)),
                     geometry |-> hf[j].geometry, data |-> NewData(hf[j])] >>
            ELSE <<>>])])

\* worker_specific_data: index -> geometry -> the last record written
WorkerSpecificData(req) ==
    LET writes == FactorWrites(req)
        geos(w) == {writes[k].geometry : k \in {x \in DOMAIN writes : writes[x].index = w}}
        last(w, g) == Max({k \in DOMAIN writes :
                              writes[k].index = w /\ writes[k].geometry = g})
    IN  [w \in 1..Len(WorkerMapKeys(req)) |->
            [g \in geos(w) |-> writes[last(w, g)].data]]

\* order_details["Order k"]: the geometries of the rows of the k-th order
\* identifier, in row order
OrderDetails(req, task) ==
    LET id == OrderIdsOfRequest(req)[task[2] + 1]
        rows == SelectSeq(req.order_data, LAMBDA row : row.order = id)
    IN  [i \in DOMAIN rows |-> rows[i].geometry]

\* geometry_worker_count: the number_of_workers of the last row of a geometry
HasWorkerCount(req, g) ==
    \E i \in DOMAIN req.geometry_line_mapping : req.geometry_line_mapping[i].geometry = g

GeometryWorkerCount(req, g) ==
    LET glm == req.geometry_line_mapping
    IN  glm[Max({i \in DOMAIN glm : glm[i].geometry = g})].number_of_workers

\* geometry_worker_count[items['geometry']] raises KeyError
WorkerCountKeyError(req) ==
    \E t \in DOMAIN req.throughput_mapping :
        ~HasWorkerCount(req, req.throughput_mapping[t].geometry)

\* required_workers_mapping after the renaming: "Line i" -> geometry -> count,
\* the lines in the order of their first throughput row
RequiredWorkersMapping(req) ==
    LET lines == LinesOfRequest(req)
        tpm == req.throughput_mapping
    IN  [key \in {LineName(i - 1) : i \in DOMAIN lines} |->
            [g \in {tpm[t].geometry : t \in {u \in DOMAIN tpm :
                                                 tpm[u].line = lines[key[2] + 1]}} |->
                GeometryWorkerCount(req, g)]]

FloorDiv(a, b) == a \div b

\* the hours of one availability row, relative to the start of the window
FromRelative(req, av) ==
    LET from_timestamp == req.start_time_stamp + av.from_timestamp
    IN  Max2(0, FloorDiv(from_timestamp - req.start_time_stamp, 3600))

EndRelative(req, av) ==
    LET end_timestamp == req.start_time_stamp + av.end_timestamp
    IN  Max2(0, CeilDiv(end_timestamp - req.start_time_stamp, 3600))

\* availability["worker"].split()[-1], then int(): the worker of an
\* availability row is the sequence of its whitespace-separated words
AvailabilityWorker(av) == IntOf(av.worker[Len(av.worker)])

\* worker_map[int(worker_id)] raises KeyError
AvailabilityKeyError(req) ==
    \E a \in DOMAIN req.availabilities :
        ~InWorkerMap(req, AvailabilityWorker(req.availabilities[a]))

RECURSIVE AvailabilitiesUpTo(_, _)
\* worker_availabilities after the first k rows: one entry per worker, its
\* windows appended in row order
AvailabilitiesUpTo(req, k) ==
    IF k = 0 THEN <<>>
    ELSE LET before == AvailabilitiesUpTo(req, k - 1)
             av == req.availabilities[k]
             id == WorkerMap(req, AvailabilityWorker(av))
             window == <<FromRelative(req, av), EndRelative(req, av)>>
         IN  IF \E i \in DOMAIN before : before[i].Worker_id = id
             THEN [i \in DOMAIN before |->
                     IF i = Min({j \in DOMAIN before : before[j].Worker_id = id})
                     THEN [before[i] EXCEPT !.availability = Append(@, window)]
                     ELSE before[i]]
             ELSE Append(before, [Worker_id |-> id, availability |-> <<window>>])

WorkerAvailabilities(req) == AvailabilitiesUpTo(req, Len(req.availabilities))

\* The geometries of an entry's order for which the lookup of a worker count
\* succeeds and is non-zero.
CountedGeometries(req, entry) ==
    LET rwm == RequiredWorkersMapping(req)
    IN  SelectSeq(OrderDetails(req, entry.Task),
                  LAMBDA geo : /\ entry.Resource \in DOMAIN rwm
                               /\ geo \in DOMAIN rwm[entry.Resource]
                               /\ rwm[entry.Resource][geo] # 0)

\* temp_order = order is the same dict, not a copy: every append adds the
\* entry's one dict, which ends with the last geometry of the list and the
\* count of the last successful lookup.
AllocationRowsOf(req, entry) ==
    LET geo_list == OrderDetails(req, entry.Task)
        counted == CountedGeometries(req, entry)
        row == [Task |-> entry.Task, Start |-> entry.Start, Finish |-> entry.Finish,
                Resource |-> entry.Resource,
                geometry |-> geo_list[Len(geo_list)],
                required_workers |->
                    RequiredWorkersMapping(req)[entry.Resource][counted[Len(counted)]]]
    IN  [i \in DOMAIN counted |-> row]

LineAllocation(req, order_to_line) ==
    Concat([e \in DOMAIN order_to_line |-> AllocationRowsOf(req, order_to_line[e])])

\* worker_allocation_data.append(i): the entries of allocation_list as they are
WorkersAppended(req, workers) == workers

\* items['workers']: the workers of the row's line, or the empty list
WithWorkers(req, items, allocation) ==
    [Task |-> items.Task, Start |-> items.Start, Finish |-> items.Finish,
     Resource |-> items.Resource, geometry |-> items.geometry,
     required_workers |-> items.required_workers,
     workers |-> IF items.Resource \in DOMAIN allocation
                 THEN WorkersAppended(req, allocation[items.Resource]) ELSE <<>>]

AllocationResult(req, la, allocation) ==
    FinalResult(req, [i \in DOMAIN la |-> WithWorkers(req, la[i], allocation)])

AllocationMessage(la) ==
    IF Len(la) = 0 THEN "No Optimal / Feasible solution found!!"
    ELSE "Successfully performed worker allocation operation."

(***************************************************************************)
(* Requests of /worker-assignment.                                         *)
(***************************************************************************)
MaxWaOrderRows == 2   \* rows of order-data in one /worker-assignment request

WaOrderRows ==
    [order : OrderIds, geometry : Geometries, amount : Amounts,
     deadline : {7440}, mold : Molds, priority : {FALSE}]

WaOrderDataInputs == UNION {SeqsOfLen(WaOrderRows, k) : k \in 1..MaxWaOrderRows}

\* experience, preference and resilience in hundredths
HumanFactorRow(worker, g, medical) ==
    [worker |-> worker, geometry |-> g, experience |-> 90, preference |-> 50,
     resilience |-> 90, medical_condition |-> medical]

\* the workers "7", "9" and "12"
HumanFactors ==
    { <<HumanFactorRow(<<7>>, "g1", FALSE), HumanFactorRow(<<7>>, "g2", FALSE),
        HumanFactorRow(<<9>>, "g1", FALSE), HumanFactorRow(<<9>>, "g2", FALSE)>>,
      <<HumanFactorRow(<<7>>, "g1", TRUE), HumanFactorRow(<<9>>, "g1", FALSE),
        HumanFactorRow(<<1, 2>>, "g2", FALSE)>>,
      <<HumanFactorRow(<<7>>, "g1", TRUE), HumanFactorRow(<<7>>, "g2", TRUE)>> }

AvailabilityRow(worker, from, end) ==
    [worker |-> worker, from_timestamp |-> from, end_timestamp |-> end]

\* no row; two rows of worker "7"; a row of a worker "8" without human_factor
AvailabilityInputs ==
    { <<>>,
      <<AvailabilityRow(<< <<7>> >>, 0, 28800), AvailabilityRow(<< <<7>> >>, 57600, 86000)>>,
      <<AvailabilityRow(<< <<8>> >>, 0, 28800)>> }

\* one order of geometry g1, which requires 1 worker; the workers "7" and "9"
\* are both available, the record of "7" for g1 has medical_condition false
\* and that of "9" has medical_condition true
ScenarioS5 ==
    [start_time_stamp |-> 7200,
     order_data |-> << [order |-> "A", geometry |-> "g1", amount |-> 60,
                        deadline |-> 7440, mold |-> 0, priority |-> FALSE] >>,
     geometry_line_mapping |-> <<GeometryLineRow("g1", 5, <<>>, 1)>>,
     throughput_mapping |-> <<ThroughputRow(5, "g1", 1)>>,
     human_factor |-> <<HumanFactorRow(<<7>>, "g1", FALSE), HumanFactorRow(<<9>>, "g1", TRUE)>>,
     availabilities |-> <<AvailabilityRow(<< <<7>> >>, 0, 28800),
                          AvailabilityRow(<< <<9>> >>, 0, 28800)>>]

WorkerAssignmentRequests ==
    { [start_time_stamp |-> st, order_data |-> od, geometry_line_mapping |-> glm,
       throughput_mapping |-> tpm, human_factor |-> hf, availabilities |-> av] :
        st \in StartTimeStamps, od \in WaOrderDataInputs,
        glm \in GeometryLineMappings, tpm \in ThroughputMappings,
        hf \in HumanFactors, av \in AvailabilityInputs }
      \cup {ScenarioS5}

(***************************************************************************)
(* The handler of /worker-assignment.  The server answers one request      *)
(* after the other; the global medical_flag outlives the requests.         *)
(***************************************************************************)
WorkerAssignmentReceive ==
    /\ pc = "idle"
    /\ request' \in WorkerAssignmentRequests
    /\ pc' = "received"
    /\ UNCHANGED <<otlVars, response, waVars, wlaVars>>

\* the request is answered; the handler's locals are gone and the server
\* waits for the next request
WorkerAssignmentDone ==
    /\ pc \in {"responded", "failed"}
    /\ pc' = "idle"
    /\ request' = NoRequest
    /\ response' = NoResponse
    /\ orders' = <<>>
    /\ status' = "UNKNOWN"
    /\ presence_of' = <<>>
    /\ starts_order' = <<>>
    /\ order_ends' = <<>>
    /\ objective_value' = 0
    /\ gantt_data' = <<>>
    /\ line_allocation' = <<>>
    /\ allocation_list' = EmptyDict
    /\ solver_runs' = 0
    /\ UNCHANGED <<makespan_weight, tardiness_weight, medical_flag, wlaVars>>

\* The order list is empty and main's read of the values of an INFEASIBLE
\* solve does not raise (see OrderToLineRespondsEmpty): main returns the empty
\* schedule.  Where the read raises, the request fails in main.
SolvedEmpty ==
    /\ orders' = <<>>
    /\ status' = "INFEASIBLE"
    /\ gantt_data' = <<>>
    /\ UNCHANGED <<presence_of, starts_order, order_ends, objective_value>>

\* what is raised between main's return and the call of main_allocation
HandlerKeyError(req) == WorkerCountKeyError(req) \/ AvailabilityKeyError(req)

\* main returns a schedule, the allocation input is built and is not empty,
\* main_allocation returns: the handler answers 200
WorkerAssignmentResponds ==
    /\ pc = "received"
    /\ ~HandlerKeyError(request)
    /\ LET os == OrderList(request)
       IN  \E sol \in OptimalSolutions(os, makespan_weight, tardiness_weight) :
             /\ ~LookupFails(os, sol)
             /\ Solved(os, sol)
             /\ gantt_data' = GanttData(os, sol)
             /\ LET la == LineAllocation(request, GanttData(os, sol))
                IN  /\ ~MainAllocationRaises(la)
                    /\ \E r \in MainAllocation(la, WorkerSpecificData(request),
                                               WorkerAvailabilities(request), medical_flag) :
                          /\ line_allocation' = la
                          /\ allocation_list' = r.workers_list
                          /\ medical_flag' = r.medical_flag
                          /\ solver_runs' = r.solver_runs
                          /\ response' = [code |-> 200,
                                          message |-> AllocationMessage(la),
                                          solution |-> AllocationResult(request, la, r.workers_list)]
    /\ pc' = "responded"
    /\ UNCHANGED <<request, makespan_weight, tardiness_weight, wlaVars>>

\* main raises: the request fails before anything else is done
WorkerAssignmentFailsInMain ==
    /\ pc = "received"
    /\ LET os == OrderList(request)
       IN  \/ /\ ModelSolutions(os, makespan_weight, tardiness_weight) = {}
              /\ orders' = os
              /\ status' = "INFEASIBLE"
              /\ UNCHANGED <<presence_of, starts_order, order_ends, objective_value>>
           \/ \E sol \in OptimalSolutions(os, makespan_weight, tardiness_weight) :
                 /\ LookupFails(os, sol)
                 /\ Solved(os, sol)
    /\ response' = [code |-> 500, message |-> "Internal Server Error", solution |-> <<>>]
    /\ pc' = "failed"
    /\ UNCHANGED <<request, makespan_weight, tardiness_weight, gantt_data,
                   waVars, wlaVars>>

\* main returns a schedule, and a lookup of the handler raises KeyError
WorkerAssignmentFailsOnKey ==
    /\ pc = "received"
    /\ HandlerKeyError(request)
    /\ LET os == OrderList(request)
       IN  \/ \E sol \in OptimalSolutions(os, makespan_weight, tardiness_weight) :
                 /\ ~LookupFails(os, sol)
                 /\ Solved(os, sol)
                 /\ gantt_data' = GanttData(os, sol)
           \/ os = <<>> /\ SolvedEmpty
    /\ response' = [code |-> 500, message |-> "Internal Server Error", solution |-> <<>>]
    /\ pc' = "failed"
    /\ UNCHANGED <<request, makespan_weight, tardiness_weight, waVars, wlaVars>>

\* main returns a schedule (possibly the empty one), the allocation input is
\* empty, and main_allocation raises ValueError
WorkerAssignmentFailsInAllocation ==
    /\ pc = "received"
    /\ ~HandlerKeyError(request)
    /\ LET os == OrderList(request)
       IN  \/ \E sol \in OptimalSolutions(os, makespan_weight, tardiness_weight) :
                 /\ ~LookupFails(os, sol)
                 /\ Solved(os, sol)
                 /\ gantt_data' = GanttData(os, sol)
                 /\ MainAllocationRaises(LineAllocation(request, GanttData(os, sol)))
           \/ /\ os = <<>>
              /\ SolvedEmpty
              /\ MainAllocationRaises(LineAllocation(request, <<>>))
    /\ response' = [code |-> 500, message |-> "Internal Server Error", solution |-> <<>>]
    /\ pc' = "failed"
    /\ UNCHANGED <<request, makespan_weight, tardiness_weight, waVars, wlaVars>>

NextWorkerAssignment ==
    \/ WorkerAssignmentReceive
    \/ WorkerAssignmentDone
    \/ WorkerAssignmentResponds
    \/ WorkerAssignmentFailsInMain
    \/ WorkerAssignmentFailsOnKey
    \/ WorkerAssignmentFailsInAllocation

SpecWorkerAssignment == InitApi /\ [][NextWorkerAssignment]_vars

(***************************************************************************)
(* The interval-based worker allocation (worker_allocation: main).         *)
(* worker_specific_data maps worker ids to their records per geometry;     *)
(* experience, preference and resilience are floats with two decimals,     *)
(* held as their hundredths.                                               *)
(***************************************************************************)
WlaHoursPerDay == 16

NLines == 3

NoGeometry == "None"

\* the literal w_not_present, named like a line so that it compares with lines
NotPresent == <<"not_present", -1>>

\* lines_names and cp_ids_of_lines
LinesNames == {LineName(i) : i \in 0..(NLines - 1)}

CpIdOfLine(line_name) == line_name[2]

\* int(x * 100) for the float x = h / 100: the product of 0.29, 0.57 and 0.58
\* with 100 lies just below the integer and is truncated to the one below
IntTimes100(h) == IF h \in {29, 57, 58} THEN h - 1 ELSE h

\* horizon = full_days * hours_per_day
WlaHorizon(ld) ==
    LET makespan == Max({ld[i].Finish : i \in DOMAIN ld})
    IN  (makespan \div WlaHoursPerDay) * WlaHoursPerDay

IsIntervalIncludedAlways(target_interval, interval_list) == TRUE

\* some interval of the list spans the target interval
IsIntervalIncluded(target_interval, interval_list) ==
    \E i \in DOMAIN interval_list :
        interval_list[i][1] <= target_interval[1] /\ interval_list[i][2] >= target_interval[2]

IntervalBounds(ld, wav) ==
    {ld[i].Start : i \in DOMAIN ld} \cup {ld[i].Finish : i \in DOMAIN ld}
      \cup UNION { UNION {{wav[a].availability[j][1], wav[a].availability[j][2]} :
                              j \in DOMAIN wav[a].availability} : a \in DOMAIN wav }

\* sorted(list(S)): the values of S in ascending order
Sorted(S) ==
    LET g[T \in SUBSET S] ==
            IF T = {} THEN <<>>
            ELSE LET x == Min(T) IN <<x>> \o g[T \ {x}]
    IN  g[S]

IntervalTupleToLastBound(ld, wav) ==
    LET interval_bounds_ascending_list == Sorted(IntervalBounds(ld, wav))
        n == Len(interval_bounds_ascending_list)
    IN  {<<interval_bounds_ascending_list[i], interval_bounds_ascending_list[n]>> :
            i \in 1..(n - 1)}

\* interval_tuple: zip of the sorted bounds without the last and without the
\* first
IntervalTuple(ld, wav) ==
    LET interval_bounds_ascending_list == Sorted(IntervalBounds(ld, wav))
        n == Len(interval_bounds_ascending_list)
    IN  {<<interval_bounds_ascending_list[i], interval_bounds_ascending_list[i + 1]>> :
            i \in 1..(n - 1)}

RelevantOrders(ld, interval) ==
    SelectSeq(ld, LAMBDA order : interval[1] <= order.Start /\ order.Start <= interval[2])

\* the intervals that are not skipped
HandledIntervals(ld, wav) ==
    {interval \in IntervalTuple(ld, wav) : RelevantOrders(ld, interval) # <<>>}

\* line_details_within_interval[line_name]: every relevant order rewrites the
\* entry of every line, so the entries are those of the last relevant order
LineDetails(ld, interval, line_name) ==
    LET relevant_orders == RelevantOrders(ld, interval)
        order_info == relevant_orders[Len(relevant_orders)]
    IN  [required_workers |->
            IF order_info.Resource = line_name THEN order_info.required_workers ELSE 0,
         geometry |->
            IF order_info.Resource = line_name THEN order_info.geometry ELSE NoGeometry]

\* the demand the model holds for a line in an elementary interval: that of
\* line_details_within_interval, and none in an interval the loop skips
\* (no relevant order: no variable is made for the interval)
IntervalDemand(ld, interval, line_name) ==
    IF RelevantOrders(ld, interval) = <<>>
    THEN [required_workers |-> 0, geometry |-> NoGeometry]
    ELSE LineDetails(ld, interval, line_name)

\* the lines of an interval for which w_line_interval variables are made
WorkedLines(ld, interval) ==
    {line_name \in LinesNames : LineDetails(ld, interval, line_name).required_workers # 0}

WorkerIds(wav) == {wav[a].Worker_id : a \in DOMAIN wav}

AvailabilityOf(wav, worker_id) ==
    wav[CHOOSE a \in DOMAIN wav : wav[a].Worker_id = worker_id].availability

\* worker_specific_data[worker_id] raises KeyError
WlaKeyError(ld, wsd, wav) ==
    \E interval \in HandledIntervals(ld, wav) :
        /\ WorkedLines(ld, interval) # {}
        /\ \E worker_id \in WorkerIds(wav) : worker_id \notin DOMAIN wsd

HasTestData(wsd, worker_id, geometry) == geometry \in DOMAIN wsd[worker_id]

\* the value a w_line_interval variable forces on one of the three variables
LineValue(wsd, worker_id, geometry, interval, field) ==
    IF ~HasTestData(wsd, worker_id, geometry) THEN 0
    ELSE IntTimes100(wsd[worker_id][geometry][field]) * (interval[2] - interval[1])

LineForbiddenNever(wsd, worker_id, geometry) == FALSE

\* w_line_interval == 0 is added
LineForbidden(wsd, worker_id, geometry) ==
    \/ ~HasTestData(wsd, worker_id, geometry)
    \/ ~wsd[worker_id][geometry].medical_condition

\* the keys of cp_variable_store and of cp_line_staff_variables
StoreKeys(ld, wav) == HandledIntervals(ld, wav) \X WorkerIds(wav)

StaffKeys(ld, wav) ==
    {key \in HandledIntervals(ld, wav) \X LinesNames : key[2] \in WorkedLines(ld, key[1])}

\* all functions f on DOMAIN choices with f[k] \in choices[k]
DependentFunctions(choices) ==
    LET g[S \in SUBSET DOMAIN choices] ==
            IF S = {} THEN {<<>>}
            ELSE LET k == CHOOSE x \in S : TRUE
                 IN  {f @@ (k :> v) : f \in g[S \ {k}], v \in choices[k]}
    IN  g[DOMAIN choices]

\* assignment_possibilities: w_not_present and one w_line_interval per
\* worked line
AssignmentPossibilities(ld, key) == {NotPresent} \cup WorkedLines(ld, key[1])

\* line_required_worker_offset is in [-required_workers, n_workers]
OffsetDomain(ld, wsd, key) ==
    (-LineDetails(ld, key[1], key[2]).required_workers)..Cardinality(DOMAIN wsd)

\* for every staffed line of an interval its offset
Offsets(ld, wsd, wav) ==
    DependentFunctions([key \in StaffKeys(ld, wav) |-> OffsetDomain(ld, wsd, key)])

WNotPresent(val, key) == val.selected[key] = NotPresent

WAllocationUnassigned(val, key) == -1

\* w_allocation: -1 under w_not_present, the line's id under w_line_interval
WAllocation(val, key) ==
    IF WNotPresent(val, key) THEN -1 ELSE CpIdOfLine(val.selected[key])

\* w_experience, w_preference, w_resilience
WValue(ld, wsd, val, key, field) ==
    IF WNotPresent(val, key) THEN 0
    ELSE LineValue(wsd, key[2], LineDetails(ld, key[1], val.selected[key]).geometry,
                   key[1], field)

\* CONSTRAINT worker availability: w_not_present == 1 for a worker who is not
\* present in the interval
AvailabilityRespected(wav, val) ==
    \A key \in DOMAIN val.selected :
        ~IsIntervalIncluded(key[1], AvailabilityOf(wav, key[2])) => WNotPresent(val, key)

\* CONSTRAINT medical condition
MedicalRespected(ld, wsd, val) ==
    \A key \in DOMAIN val.selected :
        ~WNotPresent(val, key) =>
            ~LineForbidden(wsd, key[2], LineDetails(ld, key[1], val.selected[key]).geometry)

Fields == {"experience", "preference", "resilience"}

\* the domains of the variables of the store
StoreDomainsOk(ld, wsd, val) ==
    \A key \in DOMAIN val.selected : \A field \in Fields :
        WValue(ld, wsd, val, key, field) \in 0..(WlaHorizon(ld) * 100)

SumOver(f) ==
    LET g[S \in SUBSET DOMAIN f] ==
            IF S = {} THEN 0
            ELSE LET x == CHOOSE y \in S : TRUE IN f[x] + g[S \ {x}]
    IN  g[DOMAIN f]

Total(ld, wsd, val, field) ==
    SumOver([key \in DOMAIN val.selected |-> WValue(ld, wsd, val, key, field)])

TotalStaffOffset(val) == SumOver(val.offset)

\* the objective as the weighted sum of the four totals
WeightedSum(total_preference, total_experience, total_resilience, total_staff_offset) ==
    PreferenceWeight * total_preference
      + ExperienceWeight * total_experience
      + ResistanceWeight * total_resilience
      + StaffingWeight * total_staff_offset

WlaObjective(ld, wsd, val) ==
    WeightedSum(Total(ld, wsd, val, "preference"), Total(ld, wsd, val, "experience"),
                Total(ld, wsd, val, "resilience"), TotalStaffOffset(val))

\* the domains of the totals and of the objective
TotalsOk(ld, wsd, wav, total_preference, total_experience, total_resilience, total_staff_offset) ==
    LET n_workers == Cardinality(DOMAIN wsd)
        n_intervals == Cardinality(IntervalTuple(ld, wav))
        horizon == WlaHorizon(ld)
        sum_of_weights == PreferenceWeight + ExperienceWeight + ResistanceWeight
                            + StaffingWeight
    IN  /\ total_preference \in 0..(horizon * 100 * n_workers)
        /\ total_experience \in 0..(horizon * 100 * n_workers)
        /\ total_resilience \in 0..(horizon * 100 * n_workers)
        /\ total_staff_offset \in (-n_workers * n_intervals)..(n_workers * n_intervals)
        /\ WeightedSum(total_preference, total_experience, total_resilience,
                       total_staff_offset)
              \in 0..(horizon * 100 * n_workers * 3 * sum_of_weights)

\* the literals of a key that the constraints on the worker's variables allow;
\* each of these constraints reads the variables of one key only
AllowedPossibilities(ld, wsd, wav, key) ==
    { p \in AssignmentPossibilities(ld, key) :
        LET val == [selected |-> (key :> p), offset |-> <<>>]
        IN  /\ AvailabilityRespected(wav, val)
            /\ MedicalRespected(ld, wsd, val)
            /\ StoreDomainsOk(ld, wsd, val) }

\* the offsets that, with the literals s, keep the totals and the objective
\* within their domains
FittingOffsets(ld, wsd, wav, s) ==
    LET val == [selected |-> s, offset |-> <<>>]
        total_preference == Total(ld, wsd, val, "preference")
        total_experience == Total(ld, wsd, val, "experience")
        total_resilience == Total(ld, wsd, val, "resilience")
    IN  { o \in Offsets(ld, wsd, wav) :
            TotalsOk(ld, wsd, wav, total_preference, total_experience, total_resilience,
                     SumOver(o)) }

\* the solutions of the model: the allowed literals of every key, each
\* combination with the offsets that fit it
WlaSolutions(ld, wsd, wav) ==
    UNION { {[selected |-> s, offset |-> o] : o \in FittingOffsets(ld, wsd, wav, s)} :
              s \in DependentFunctions([key \in StoreKeys(ld, wav) |->
                                          AllowedPossibilities(ld, wsd, wav, key)]) }

WlaOptimal(ld, wsd, wav) ==
    LET sols == WlaSolutions(ld, wsd, wav)
        best == Max({WlaObjective(ld, wsd, s) : s \in sols})
    IN  IF sols = {} THEN {} ELSE {s \in sols : WlaObjective(ld, wsd, s) = best}

(***************************************************************************)
(* Calls of the interval-based main.                                       *)
(***************************************************************************)
MaxLineRows == 2   \* rows of line_data in one call

WlaLineRows ==
    {r \in [Task : {OrderName(0)}, Start : {0, 8}, Finish : {8, 16},
            Resource : {LineName(0), LineName(1)}, geometry : Geometries,
            required_workers : {2}] : r.Start < r.Finish}

LineDataInputs == UNION {SeqsOfLen(WlaLineRows, k) : k \in 1..MaxLineRows}

WorkerRecord(experience, preference, resilience, medical) ==
    [experience |-> experience, preference |-> preference, resilience |-> resilience,
     medical_condition |-> medical]

\* two workers, the second with records for both geometries; one worker
WorkerDataInputs ==
    { << [g1 |-> WorkerRecord(90, 50, 90, TRUE)],
         [g1 |-> WorkerRecord(29, 57, 58, TRUE), g2 |-> WorkerRecord(90, 50, 90, FALSE)] >>,
      << [g1 |-> WorkerRecord(90, 50, 90, TRUE), g2 |-> WorkerRecord(50, 50, 50, TRUE)] >> }

WorkerWindows(worker_id, windows) == [Worker_id |-> worker_id, availability |-> windows]

WorkerAvailabilityInputs ==
    { <<>>,
      <<WorkerWindows(1, << <<0, 16>> >>)>>,
      <<WorkerWindows(1, << <<0, 8>> >>), WorkerWindows(2, << <<8, 16>> >>)>>,
      <<WorkerWindows(1, << <<0, 4>>, <<8, 16>> >>)>> }

\* one line requires 2 workers for g1 over [0, 8); the only worker is available
\* over [0, 8] and fit for g1, with experience 0.9, preference 0.5 and
\* resilience 0.9
ScenarioS4 ==
    [line_data |-> << [Task |-> OrderName(0), Start |-> 0, Finish |-> 8,
                       Resource |-> LineName(0), geometry |-> "g1",
                       required_workers |-> 2] >>,
     worker_specific_data |-> << [g1 |-> WorkerRecord(90, 50, 90, TRUE)] >>,
     worker_availabilities |-> << WorkerWindows(1, << <<0, 8>> >>) >>]

NoValues == [selected |-> <<>>, offset |-> <<>>]

InitWla ==
    /\ pc = "wla_called"
    /\ \/ /\ line_data \in LineDataInputs
          /\ worker_specific_data \in WorkerDataInputs
          /\ worker_availabilities \in WorkerAvailabilityInputs
       \/ /\ line_data = ScenarioS4.line_data
          /\ worker_specific_data = ScenarioS4.worker_specific_data
          /\ worker_availabilities = ScenarioS4.worker_availabilities
    /\ solver_values = NoValues
    /\ orders = <<>>
    /\ makespan_weight = DefaultWeight
    /\ tardiness_weight = DefaultWeight
    /\ status = "UNKNOWN"
    /\ presence_of = <<>>
    /\ starts_order = <<>>
    /\ order_ends = <<>>
    /\ objective_value = 0
    /\ gantt_data = <<>>
    /\ request = NoRequest
    /\ response = NoResponse
    /\ medical_flag = FALSE
    /\ line_allocation = <<>>
    /\ allocation_list = EmptyDict
    /\ solver_runs = 0

\* the model is built and solved; main logs the values and returns None
WlaMainReturns ==
    /\ pc = "wla_called"
    /\ ~WlaKeyError(line_data, worker_specific_data, worker_availabilities)
    /\ \E val \in WlaOptimal(line_data, worker_specific_data, worker_availabilities) :
          /\ solver_values' = val
          /\ objective_value' = WlaObjective(line_data, worker_specific_data, val)
    /\ status' = "OPTIMAL"
    /\ pc' = "wla_returned"
    /\ UNCHANGED <<orders, makespan_weight, tardiness_weight, presence_of, starts_order,
                   order_ends, gantt_data, apiVars, waVars, line_data,
                   worker_specific_data, worker_availabilities>>

\* a worker of worker_availabilities has no entry in worker_specific_data
WlaMainRaises ==
    /\ pc = "wla_called"
    /\ WlaKeyError(line_data, worker_specific_data, worker_availabilities)
    /\ pc' = "wla_raised"
    /\ UNCHANGED <<otlVars, apiVars, waVars, wlaVars>>

NextWla ==
    \/ WlaMainReturns
    \/ WlaMainRaises

SpecWla == InitWla /\ [][NextWla]_vars

(***************************************************************************)
(* Calls of main_allocation, run by run.  The call runs the solver once    *)
(* and, where that run assigned no worker and the global flag was unset,   *)
(* sets the flag and calls itself again.                                   *)
(***************************************************************************)
MaxSolverRuns == 3   \* solver runs of one call the model follows

\* assignment_vars[worker_id] raises KeyError for a worker of
\* worker_availabilities that worker_specific_data does not hold
AllocKeyError(ld, wsd, wav) ==
    \E a \in DOMAIN wav :
        /\ wav[a].availability # <<>>
        /\ LineNames(ld) # {}
        /\ wav[a].Worker_id \notin DOMAIN wsd

RetryNeededWhenEmpty(workers_list, flag) == workers_list = EmptyDict

\* if not workers_list and not medical_flag
RetryNeeded(workers_list, flag) == workers_list = EmptyDict /\ ~flag

InitAllocation ==
    /\ pc = "alloc_called"
    /\ line_data \in LineDataInputs
    /\ worker_specific_data \in WorkerDataInputs
    /\ worker_availabilities \in WorkerAvailabilityInputs
    /\ medical_flag \in BOOLEAN
    /\ solver_runs = 0
    /\ allocation_list = EmptyDict
    /\ line_allocation = <<>>
    /\ solver_values = NoValues
    /\ orders = <<>>
    /\ makespan_weight = DefaultWeight
    /\ tardiness_weight = DefaultWeight
    /\ status = "UNKNOWN"
    /\ presence_of = <<>>
    /\ starts_order = <<>>
    /\ order_ends = <<>>
    /\ objective_value = 0
    /\ gantt_data = <<>>
    /\ request = NoRequest
    /\ response = NoResponse

\* one run of the body of main_allocation, in the first call or in the call
\* it makes of itself: the model is built under the current flag and solved,
\* workers_list is filled, and the call either returns it or sets the flag
\* and calls main_allocation again
MainAllocationRuns ==
    /\ pc \in {"alloc_called", "alloc_retrying"}
    /\ solver_runs < MaxSolverRuns
    /\ ~AllocKeyError(line_data, worker_specific_data, worker_availabilities)
    /\ \E workers_list \in SolverRun(line_data, worker_specific_data,
                                      worker_availabilities, medical_flag) :
          /\ allocation_list' = workers_list
          /\ IF RetryNeeded(workers_list, medical_flag)
             THEN medical_flag' = TRUE /\ pc' = "alloc_retrying"
             ELSE medical_flag' = medical_flag /\ pc' = "alloc_returned"
    /\ solver_runs' = solver_runs + 1
    /\ UNCHANGED <<otlVars, apiVars, line_allocation, wlaVars>>

\* building the model raises KeyError
MainAllocationRaisesKeyError ==
    /\ pc = "alloc_called"
    /\ AllocKeyError(line_data, worker_specific_data, worker_availabilities)
    /\ pc' = "alloc_raised"
    /\ UNCHANGED <<otlVars, apiVars, waVars, wlaVars>>

NextAllocation ==
    \/ MainAllocationRuns
    \/ MainAllocationRaisesKeyError

SpecAllocation == InitAllocation /\ [][NextAllocation]_vars

\* the call is one thread of control that runs to its end
FairSpecAllocation == SpecAllocation /\ WF_vars(NextAllocation)

(***************************************************************************)
(* Properties of the order-to-line solver.                                 *)
(***************************************************************************)
Returned == pc = "returned"

\* [Start, Finish) of two schedule entries have no hour in common
DisjointEntries(e1, e2) ==
    ~ \E t \in 0..Horizon(orders) :
          /\ e1.Start <= t /\ t < e1.Finish
          /\ e2.Start <= t /\ t < e2.Finish

\* C1 (OTL line exclusivity): in the schedule main returns, any two distinct
\* entries with the same Resource have disjoint half-open intervals
\* [Start, Finish).
C1_LineExclusivity ==
    Returned =>
        \A i, j \in DOMAIN gantt_data :
            (i # j /\ gantt_data[i].Resource = gantt_data[j].Resource)
                => DisjointEntries(gantt_data[i], gantt_data[j])

\* A returned schedule with two orders on one line, one after the other.
C1_Witness ==
    /\ Returned
    /\ \E i, j \in DOMAIN gantt_data :
          /\ i # j
          /\ gantt_data[i].Resource = gantt_data[j].Resource
          /\ gantt_data[i].Finish <= gantt_data[j].Start

\* C2 (OTL order completeness), as claimed: whenever the solver has found a
\* solution for an input whose orders all have alternatives (two alternatives
\* of an order may name the same line), main returns a schedule with exactly
\* one entry 'Order k' for every order index k; building the output never
\* fails to find the selected alternative's line.
C2_OrderCompleteness ==
    (pc # "called" /\ status = "OPTIMAL") =>
        /\ Returned
        /\ \A k \in DOMAIN orders :
              Cardinality({i \in DOMAIN gantt_data :
                               gantt_data[i].Task = <<"Order", k - 1>>}) = 1
        /\ Len(gantt_data) = Len(orders)

\* C3 (OTL duration faithfulness): for every returned entry, Finish - Start is
\* the duration of the alternative of that order whose presence literal is 1,
\* and the emitted Resource is the line of that same alternative.
C3_DurationFaithfulness ==
    Returned =>
        \A k \in DOMAIN gantt_data :
            LET alt == orders[k][presence_of[k]]
            IN  /\ gantt_data[k].Finish - gantt_data[k].Start = Duration(alt)
                /\ gantt_data[k].Resource = <<"Line", LineId(alt)>>

\* A returned schedule in which the selected alternative of an order is not
\* its first one and differs from the first in line and in duration.
C3_Witness ==
    /\ Returned
    /\ \E k \in DOMAIN orders :
          /\ presence_of[k] # 1
          /\ LineId(orders[k][presence_of[k]]) # LineId(orders[k][1])
          /\ Duration(orders[k][presence_of[k]]) # Duration(orders[k][1])
          /\ gantt_data[k].Resource = <<"Line", LineId(orders[k][presence_of[k]])>>

\* C4 (priority precedence): in every returned schedule an order whose
\* priority bit (the bit main reads, that of the order's first alternative) is
\* 1 starts no later than every order whose priority bit is 0.
C4_PriorityPrecedence ==
    Returned =>
        \A p, n \in DOMAIN gantt_data :
            (Priority(orders[p][1]) = 1 /\ Priority(orders[n][1]) = 0)
                => gantt_data[p].Start <= gantt_data[n].Start

\* A returned schedule where a priority order listed after a non-priority
\* order on the same line runs first.
C4_Witness ==
    /\ Returned
    /\ \E p, n \in DOMAIN gantt_data :
          /\ n < p
          /\ Priority(orders[p][1]) = 1
          /\ Priority(orders[n][1]) = 0
          /\ gantt_data[p].Resource = gantt_data[n].Resource
          /\ gantt_data[p].Finish <= gantt_data[n].Start

\* The schedules of the claim: exactly one alternative per order, all times in
\* [0, H], no overlap on a line, priority orders first.
AdmissibleSchedules(os) ==
    { sol \in Assignments(os) : NoOverlap(os, sol) /\ PriorityBefore(os, sol) }

\* C5 (OTL optimality), as claimed: whenever an admissible schedule exists,
\* the solve ends OPTIMAL and the objective value it reports is the minimum of
\* w_m * makespan + w_t * total_tardiness over the admissible schedules.
C5_Optimality ==
    (pc # "called" /\ AdmissibleSchedules(orders) # {}) =>
        /\ status = "OPTIMAL"
        /\ objective_value =
              Min({ObjectiveOf(orders, makespan_weight, tardiness_weight, sol) :
                      sol \in AdmissibleSchedules(orders)})

\* C6 (OTL failure semantics), as claimed: if the status after solving is
\* neither OPTIMAL nor FEASIBLE, main returns an empty schedule.
C6_FailureEmptySchedule ==
    (pc # "called" /\ status \notin {"OPTIMAL", "FEASIBLE"}) =>
        (Returned /\ gantt_data = <<>>)

(***************************************************************************)
(* Properties of POST /order-to-line.                                      *)
(***************************************************************************)
Responded == pc = "responded"

\* the identifiers of the orders that reach the OTL input, in its order: entry
\* k of the schedule was produced by the alternatives of the k-th of them
ProducingOrders(req) ==
    SelectSeq(OrderIdsOfRequest(req), LAMBDA id : OrderDict(req, id) # <<>>)

\* the line identifier of the throughput rows that yield the dense index l
ScheduledLines(req, l) ==
    {req.throughput_mapping[t].line : t \in
        {u \in DOMAIN req.throughput_mapping :
            InitLineList(req, req.throughput_mapping[u].line) = l}}

\* C7 (canonicalization round-trip), as claimed: every row of the response's
\* solution carries as Task the original identifier of the order whose
\* alternatives produced that schedule entry, and as Resource the original
\* identifier of the line the entry was scheduled on, also when orders without
\* a feasible line were dropped from the OTL input.
C7_RoundTrip ==
    Responded =>
        \A k \in DOMAIN response.solution :
            /\ response.solution[k].Task = ProducingOrders(request)[k]
            /\ response.solution[k].Resource
                  \in ScheduledLines(request, LineId(orders[k][presence_of[k]]))

\* C9 (end-to-end priority rule), as claimed: in the response of
\* /order-to-line every scheduled order whose request rows have priority = true
\* starts no later than every scheduled order whose rows have priority = false.
RowsHavePriority(req, id, flag) ==
    \A r \in DOMAIN req.order_data :
        req.order_data[r].order = id => req.order_data[r].priority = flag

C9_EndToEndPriority ==
    Responded =>
        \A p, n \in DOMAIN response.solution :
            (/\ RowsHavePriority(request, ProducingOrders(request)[p], TRUE)
             /\ RowsHavePriority(request, ProducingOrders(request)[n], FALSE))
                => response.solution[p].Start <= response.solution[n].Start

(***************************************************************************)
(* Properties of POST /worker-assignment.                                  *)
(***************************************************************************)
\* the worker identifiers of the request's human_factor records, as numbers
OriginalWorkers(req) ==
    {IntOf(req.human_factor[h].worker) : h \in DOMAIN req.human_factor}

\* C8 (worker identifier re-expansion), as claimed: in the response of
\* /worker-assignment every element of a row's workers list is the original
\* identifier of a worker of the request's human_factor records, not the dense
\* index in 1..W the solver uses.
C8_WorkerIdReexpansion ==
    Responded =>
        \A k \in DOMAIN response.solution :
            \A i \in DOMAIN response.solution[k].workers :
                response.solution[k].workers[i] \in OriginalWorkers(request)

(***************************************************************************)
(* Properties of the interval-based worker allocation.                     *)
(***************************************************************************)
WlaReturned == pc = "wla_returned"

\* the worker of the key has an availability window [a, b] with a <= s and
\* b >= e for the key's interval [s, e)
HasWindowOver(wav, key) ==
    \E a \in DOMAIN wav : \E j \in DOMAIN wav[a].availability :
        /\ wav[a].Worker_id = key[2]
        /\ wav[a].availability[j][1] <= key[1][1]
        /\ wav[a].availability[j][2] >= key[1][2]

\* C10 (availability respect, interval model): in every solution of the model
\* a worker whose allocation in an elementary interval is not -1 has an
\* availability window that spans the interval; a worker without such a window
\* has not_present = 1 (and allocation -1) in that interval.
C10_AvailabilityRespect ==
    WlaReturned =>
        \A val \in WlaSolutions(line_data, worker_specific_data, worker_availabilities) :
            \A key \in DOMAIN val.selected :
                /\ WAllocation(val, key) # -1 => HasWindowOver(worker_availabilities, key)
                /\ ~HasWindowOver(worker_availabilities, key) =>
                      WNotPresent(val, key) /\ WAllocation(val, key) = -1

\* the solve returned values in which one worker is on a line in an interval
\* inside one of their windows and a worker (the same or another) is not
\* present in an interval no window of theirs spans
C10_Witness ==
    /\ WlaReturned
    /\ \E key \in DOMAIN solver_values.selected :
          /\ WAllocation(solver_values, key) # -1
          /\ HasWindowOver(worker_availabilities, key)
    /\ \E key \in DOMAIN solver_values.selected :
          /\ ~HasWindowOver(worker_availabilities, key)
          /\ WNotPresent(solver_values, key)
          /\ WorkedLines(line_data, key[1]) # {}

\* the line with the cp id of an allocation value
LineOfAllocation(allocation) == LineName(allocation)

\* the worker has a record for the geometry and its medical-condition is true
MedicallyFit(wsd, worker_id, geometry) ==
    /\ geometry \in DOMAIN wsd[worker_id]
    /\ wsd[worker_id][geometry].medical_condition

TrueLiterals(val, key) ==
    (IF WNotPresent(val, key) THEN 1 ELSE 0)
      + Cardinality({line_name \in LinesNames : val.selected[key] = line_name})

FreshOutcomes(req, la) ==
    {r.workers_list : r \in MainAllocation(la, WorkerSpecificData(req),
                                           WorkerAvailabilities(req), FALSE)}

\* C13 (no shared state between requests): whatever requests were answered
\* before, the mapping main_allocation returns for a request is one it may
\* return for the same arguments when it was never called before; the outcome
\* depends on the call's arguments only.
C13_NoSharedState ==
    Responded => allocation_list \in FreshOutcomes(request, line_allocation)

\* main_allocation found no solution: it returned the empty mapping for a
\* line_data that is not empty
AllocationInfeasible == Responded /\ line_allocation # <<>> /\ allocation_list = EmptyDict

\* C14 (infeasible allocation is reported): when main_allocation returns the
\* empty mapping for a schedule that is not empty, every row of the response
\* has an empty workers list and the message of the response is not the
\* message of success.
C14_InfeasibleReported ==
    AllocationInfeasible =>
        /\ \A k \in DOMAIN response.solution : response.solution[k].workers = <<>>
        /\ response.message # "Successfully performed worker allocation operation."

\* a request is answered whose orders all have no alternative, so that the
\* order list handed to main is empty and any schedule main yields is empty;
\* no lookup of the handler raises
EmptyScheduleAnswered ==
    /\ pc \in {"responded", "failed"}
    /\ OrderList(request) = <<>>
    /\ ~HandlerKeyError(request)

\* C15 (empty schedule is propagated): when the order-to-line step yields an
\* empty schedule, the request is answered with status 200, an empty solution
\* and the message that no optimal or feasible solution was found.
C15_EmptySchedulePropagated ==
    EmptyScheduleAnswered =>
        /\ response.code = 200
        /\ response.solution = <<>>
        /\ response.message = "No Optimal / Feasible solution found!!"

\* (a) an order row names a geometry that geometry_line_mapping does not hold
OrderGeometryUnknown(req) ==
    \E i \in DOMAIN req.order_data :
        \A g \in DOMAIN req.geometry_line_mapping :
            req.geometry_line_mapping[g].geometry # req.order_data[i].geometry

\* (b) a throughput row names a geometry that geometry_line_mapping does not hold
ThroughputGeometryUnknown(req) ==
    \E i \in DOMAIN req.throughput_mapping :
        \A g \in DOMAIN req.geometry_line_mapping :
            req.geometry_line_mapping[g].geometry # req.throughput_mapping[i].geometry

\* (c) an availability row names a worker that human_factor does not hold
AvailabilityWorkerUnknown(req) ==
    \E i \in DOMAIN req.availabilities :
        \A h \in DOMAIN req.human_factor :
            IntOf(req.human_factor[h].worker) # AvailabilityWorker(req.availabilities[i])

\* a request with a consistency gap is answered, and main returned a schedule
\* for its orders
GapAnswered ==
    /\ pc \in {"responded", "failed"}
    /\ status = "OPTIMAL"
    /\ gantt_data # <<>>
    /\ \/ OrderGeometryUnknown(request)
       \/ ThroughputGeometryUnknown(request)
       \/ AvailabilityWorkerUnknown(request)

\* C16 (consistency gaps are dropped silently): a /worker-assignment request
\* in which an order or a throughput row names a geometry without a
\* geometry_line_mapping row, or an availability row names a worker without a
\* human_factor row, is answered with status 200; no error is raised.
C16_GapsDroppedSilently == GapAnswered => response.code = 200

\* C17 (scenario S2): for order A = [(10, 0, 1, 20)] and order B =
\* [(5, 0, 0, 20)] with the default weights the solve is OPTIMAL, main returns,
\* and the schedule is A on line 0 from 0 to 10 and B on line 0 from 10 to 15.
C17_ScenarioS2 ==
    (pc # "called" /\ orders = ScenarioS2) =>
        /\ Returned
        /\ status = "OPTIMAL"
        /\ gantt_data = << [Task |-> OrderName(0), Start |-> 0, Finish |-> 10,
                            Resource |-> LineName(0)],
                           [Task |-> OrderName(1), Start |-> 10, Finish |-> 15,
                            Resource |-> LineName(0)] >>

\* main returned the schedule of the scenario
C17_Witness ==
    /\ Returned
    /\ orders = ScenarioS2
    /\ makespan_weight = DefaultWeight /\ tardiness_weight = DefaultWeight
    /\ Len(gantt_data) = 2

\* the call of the interval-based main on scenario S4 has ended
ScenarioS4Ended ==
    /\ pc # "wla_called"
    /\ line_data = ScenarioS4.line_data
    /\ worker_specific_data = ScenarioS4.worker_specific_data
    /\ worker_availabilities = ScenarioS4.worker_availabilities

\* C18 (scenario S4, under-availability): with one line requiring 2 workers
\* over [0, 8) and one fit worker available over [0, 8], the solve is OPTIMAL,
\* the worker is allocated to the line in the interval [0, 8) and the staffing
\* offset of the line in that interval is -1.
C18_ScenarioS4 ==
    ScenarioS4Ended =>
        /\ WlaReturned
        /\ status = "OPTIMAL"
        /\ <<<<0, 8>>, 1>> \in DOMAIN solver_values.selected
        /\ WAllocation(solver_values, <<<<0, 8>>, 1>>) = CpIdOfLine(LineName(0))
        /\ <<<<0, 8>>, LineName(0)>> \in DOMAIN solver_values.offset
        /\ solver_values.offset[<<<<0, 8>>, LineName(0)>>] = -1

\* the rows the expansion owes to one schedule entry: one per geometry of the
\* entry's geometry list for which a count is recorded for the entry's line,
\* each with its own geometry and that geometry's count
ExpansionOf(req, entry) ==
    LET counted == CountedGeometries(req, entry)
    IN  [i \in DOMAIN counted |->
            [Task |-> entry.Task, Start |-> entry.Start, Finish |-> entry.Finish,
             Resource |-> entry.Resource, geometry |-> counted[i],
             required_workers |-> RequiredWorkersMapping(req)[entry.Resource][counted[i]]]]

\* C19 (schedule-to-allocation expansion): the line_data handed to the
\* allocation holds, for every schedule entry and every geometry of the
\* entry's geometry list with a recorded worker count for the entry's line,
\* one row with the entry's Task, Start, Finish and Resource, that geometry
\* and that geometry's count; rows of one entry keep their own geometries.
C19_Expansion ==
    Responded =>
        line_allocation =
            Concat([e \in DOMAIN gantt_data |-> ExpansionOf(request, gantt_data[e])])

\* the rows of line_data on a line that span an elementary interval
CoveringRows(ld, interval, line_name) ==
    {i \in DOMAIN ld : /\ ld[i].Resource = line_name
                       /\ ld[i].Start <= interval[1]
                       /\ ld[i].Finish >= interval[2]}

\* C20 (per-interval demand, interval model): for every elementary interval
\* and every line of line_data, the required-worker count and the geometry the
\* model holds are those of a row of line_data on that line that starts at or
\* before the interval and finishes at or after it, and 0 and no geometry if
\* there is no such row.
C20_PerIntervalDemand ==
    WlaReturned =>
        \A interval \in IntervalTuple(line_data, worker_availabilities) :
            \A line_name \in {line_data[i].Resource : i \in DOMAIN line_data} :
                LET used == IntervalDemand(line_data, interval, line_name)
                    covering == CoveringRows(line_data, interval, line_name)
                IN  IF covering = {}
                    THEN used.required_workers = 0 /\ used.geometry = NoGeometry
                    ELSE \E i \in covering :
                            /\ used.required_workers = line_data[i].required_workers
                            /\ used.geometry = line_data[i].geometry

\* the workers whose selected literal in the interval is the line's
WorkersAssigned(val, interval, line_name) ==
    Cardinality({key \in DOMAIN val.selected :
                    key[1] = interval /\ val.selected[key] = line_name})

\* C21 (staffing offset definition, interval model): for each interval and line
\* with a positive requirement, the staffing-offset variable of the returned
\* solution equals the number of workers assigned to the line in the interval
\* minus the requirement.
C21_StaffingOffset ==
    WlaReturned =>
        \A key \in DOMAIN solver_values.offset :
            LET required_workers == LineDetails(line_data, key[1], key[2]).required_workers
            IN  required_workers > 0 =>
                    solver_values.offset[key]
                      = WorkersAssigned(solver_values, key[1], key[2]) - required_workers

\* the values at which a row of line_data starts or finishes or an
\* availability window starts or ends
ScheduleAndAvailabilityEndpoints(ld, wav) ==
    {ld[i].Start : i \in DOMAIN ld} \cup {ld[i].Finish : i \in DOMAIN ld}
      \cup UNION {{window[1], window[2]} :
                      window \in UNION {{wav[a].availability[j] :
                                            j \in DOMAIN wav[a].availability} :
                                         a \in DOMAIN wav}}

\* C22 (interval partition): the elementary intervals are the pairs of
\* distinct endpoint values of line_data and the availabilities with no
\* endpoint between them; every interval has start < end, an interval that
\* does not end at the last endpoint is followed by one that starts where it
\* ends, and no endpoint lies strictly inside an interval.
C22_IntervalPartition ==
    pc # "wla_called" =>
        LET endpoints == ScheduleAndAvailabilityEndpoints(line_data, worker_availabilities)
            interval_tuple == IntervalTuple(line_data, worker_availabilities)
        IN  /\ interval_tuple
                 = {<<s, e>> \in endpoints \X endpoints :
                       s < e /\ ~\E b \in endpoints : s < b /\ b < e}
            /\ \A interval \in interval_tuple :
                  /\ interval[1] < interval[2]
                  /\ ~\E b \in endpoints : interval[1] < b /\ b < interval[2]
                  /\ interval[2] # Max(endpoints) =>
                        \E next \in interval_tuple : next[1] = interval[2]

\* a call over three elementary intervals, one of them bounded by availability
\* endpoints only
C22_Witness ==
    /\ WlaReturned
    /\ Cardinality(IntervalTuple(line_data, worker_availabilities)) >= 3
    /\ \E interval \in IntervalTuple(line_data, worker_availabilities) :
          \A i \in DOMAIN line_data :
              interval[2] \notin {line_data[i].Start, line_data[i].Finish}

(***************************************************************************)
(* Properties of the handlers' conversions.                                *)
(***************************************************************************)
\* the window of an availability row in hours after the request's
\* start_time_stamp, clamped at 0
HoursAfterStart(req, av) ==
    << Max2(0, FloorDiv(av.from_timestamp - req.start_time_stamp, 3600)),
       Max2(0, CeilDiv(av.end_timestamp - req.start_time_stamp, 3600)) >>

\* C23 (availability hours): for every availability row of an answered
\* request, the windows handed to the allocation under the dense index of the
\* row's worker hold the row's window in hours after start_time_stamp,
\* (max(0, floor((from_timestamp - start_time_stamp) / 3600)),
\* max(0, ceil((end_timestamp - start_time_stamp) / 3600))), and hold no window
\* that is not that of a row of the worker.
C23_AvailabilityHours ==
    Responded =>
        LET worker_availabilities_of_request == WorkerAvailabilities(request)
            rows_of(id) == {a \in DOMAIN request.availabilities :
                               WorkerMap(request, AvailabilityWorker(request.availabilities[a])) = id}
        IN  /\ \A a \in DOMAIN request.availabilities :
                  \E i \in DOMAIN worker_availabilities_of_request :
                      a \in rows_of(worker_availabilities_of_request[i].Worker_id)
            /\ \A i \in DOMAIN worker_availabilities_of_request :
                  LET entry == worker_availabilities_of_request[i]
                  IN  {entry.availability[j] : j \in DOMAIN entry.availability}
                        = {HoursAfterStart(request, request.availabilities[a]) :
                              a \in rows_of(entry.Worker_id)}

\* the number of distinct lines that appear in throughput_mapping before the
\* first row of the line
LinePosition(req, line) ==
    LET first == Min({t \in DOMAIN req.throughput_mapping :
                         req.throughput_mapping[t].line = line})
    IN  Cardinality({req.throughput_mapping[t].line : t \in 1..(first - 1)})

\* C24 (canonical alternative well-formedness): every alternative of the order
\* list built from a request has a positive integer duration, a line index in
\* [0, L) that is the dense index of the line of a throughput row of the
\* order's geometry, a priority bit in {0, 1} and a non-negative due date.
C24_WellFormedAlternatives ==
    pc # "idle" =>
        \A o \in DOMAIN OrderList(request) : \A a \in DOMAIN OrderList(request)[o] :
            LET alt == OrderList(request)[o][a]
                L == Len(LinesOfRequest(request))
            IN  /\ Duration(alt) \in Nat \ {0}
                /\ LineId(alt) \in 0..(L - 1)
                /\ \E t \in DOMAIN request.throughput_mapping :
                      LineId(alt) = LinePosition(request, request.throughput_mapping[t].line)
                /\ Priority(alt) \in {0, 1}
                /\ DueDate(alt) \in Nat

\* C25 (priority is uniform per order): in the order list built from a
\* request, all alternatives of one order carry the same priority bit, so the
\* solver's classification of the order by its first alternative agrees with
\* the bit of every alternative of the order.
C25_UniformPriority ==
    pc # "idle" =>
        \A o \in DOMAIN OrderList(request) :
            LET order == OrderList(request)[o]
            IN  \A a \in DOMAIN order :
                    /\ Priority(order[a]) = Priority(order[1])
                    /\ OrderIsPriority(order) <=> Priority(order[a]) # 0

\* the throughput row is one of the order row's geometry on a line of the
\* geometry's main and alternative lines
RowUses(req, row, tp) ==
    /\ tp.geometry = row.geometry
    /\ \E g \in DOMAIN req.geometry_line_mapping :
          LET mapping == req.geometry_line_mapping[g]
          IN  /\ mapping.geometry = row.geometry
              /\ \/ tp.line = LineName(mapping.main_line)
                 \/ \E l \in DOMAIN mapping.alternative_lines :
                       tp.line = LineName(mapping.alternative_lines[l])

\* d = ceil(5 * mold + (15 + amount / t) / 60) for the throughput t, 300 in
\* place of a throughput of 0: d - 1 < 5 * mold + (15 + amount / t) / 60 <= d,
\* multiplied by 60 * t
IsDurationFor(d, row, tp) ==
    LET t == IF tp.throughput = 0 THEN 300 ELSE tp.throughput
        hours_times_60t == 300 * row.mold * t + 15 * t + row.amount
    IN  60 * t * (d - 1) < hours_times_60t /\ hours_times_60t <= 60 * t * d

StrictlySolved == Responded /\ ~medical_flag

\* C27 (medical exclusion in the coarse model, scenario S5): in the strict
\* solve a worker whose record for a geometry has medical-condition false is
\* on no line on which the geometry is scheduled; with two available workers,
\* worker 1 with medical-condition false and worker 2 with medical-condition
\* true for G and a requirement of 1, worker 2 is assigned and worker 1 is not.
C27_MedicalExclusionCoarse ==
    StrictlySolved =>
        /\ \A line \in DOMAIN allocation_list : \A i \in DOMAIN allocation_list[line] :
              LET worker_id == allocation_list[line][i]
                  worker_data == WorkerSpecificData(request)[worker_id]
              IN  \A geo \in DOMAIN worker_data :
                      RunsGeometry(line_allocation, line, geo) =>
                          worker_data[geo].medical_condition
        /\ request = ScenarioS5 => allocation_list = (LineName(0) :> <<2>>)

\* a window of the worker intersects the time span of a job on the line
HasWindowOnLine(ld, wav, worker_id, line) ==
    \E a \in DOMAIN wav : \E k \in DOMAIN wav[a].availability : \E i \in DOMAIN ld :
        /\ wav[a].Worker_id = worker_id
        /\ ld[i].Resource = line
        /\ wav[a].availability[k][1] < ld[i].Finish
        /\ wav[a].availability[k][2] > ld[i].Start

\* C28 (availability in the coarse model): in every mapping main_allocation
\* returns, a worker is on a line only if one of the worker's availability
\* windows intersects the time span of a job scheduled on the line.
C28_AvailabilityCoarse ==
    Responded =>
        \A line \in DOMAIN allocation_list : \A i \in DOMAIN allocation_list[line] :
            HasWindowOnLine(line_allocation, WorkerAvailabilities(request),
                            allocation_list[line][i], line)

AllocationEnded == pc \in {"alloc_returned", "alloc_raised"}

\* C29 (retry-once termination of the coarse model): every call of
\* main_allocation with non-empty line_data ends, after at most two solver
\* runs; the call runs the solver again only when the first run assigned no
\* worker and the medical constraint was enforced (the flag was unset); the
\* second run is made without the medical constraint, and its result is
\* returned even if it is the empty mapping.
C29_RetryOnce ==
    /\ <>AllocationEnded
    /\ [](solver_runs <= 2)
    /\ [][pc' = "alloc_retrying" =>
            /\ solver_runs = 0
            /\ ~medical_flag
            /\ allocation_list' = EmptyDict]_vars
    /\ [][pc = "alloc_retrying" =>
            /\ medical_flag
            /\ pc' = "alloc_returned"
            /\ allocation_list' \in SolverRun(line_data, worker_specific_data,
                                              worker_availabilities, TRUE)]_vars

\* a call returned the empty mapping of its second run
C29_Witness ==
    /\ pc = "alloc_returned"
    /\ line_data # <<>>
    /\ solver_runs = 2
    /\ allocation_list = EmptyDict

\* every order has an alternative, every alternative a positive duration and
\* a non-negative due date
WellFormedOrders(os) ==
    /\ os # <<>>
    /\ \A o \in DOMAIN os :
          /\ os[o] # <<>>
          /\ \A a \in DOMAIN os[o] : Duration(os[o][a]) > 0 /\ DueDate(os[o][a]) >= 0

\* C30 (OTL model feasibility): for every input whose orders each have an
\* alternative with positive duration and non-negative due date, and for any
\* positive weights, the model with the declared domains of makespan,
\* total_tardiness and objective has a solution: the solve does not end with
\* INFEASIBLE.
C30_Feasibility ==
    (/\ pc # "called"
     /\ WellFormedOrders(orders)
     /\ makespan_weight > 0
     /\ tardiness_weight > 0
     /\ AdmissibleSchedules(orders) # {})
        => status # "INFEASIBLE"

====
